---- MODULE Spec2Model ----
(***************************************************************************)
(* The live-shopping backend: the LiveVideoRequest table, the Dyte API     *)
(* client and the four handlers of LiveVideoRequestViewSet (create, list,  *)
(* start, user_token), as given in BLOG.md.                                *)
(*                                                                         *)
(* Spec     : every handler runs from request to response without another  *)
(*            handler in between (one worker).                             *)
(* SpecConc : several start requests are in flight at once; the read of    *)
(*            the row, the provider call and the save are separate steps   *)
(*            that interleave with every other handler.                    *)
(***************************************************************************)
EXTENDS Integers, Sequences, FiniteSets, Bags, TLC

\* ------------------------------------------------------------------ bounds
MaxRows == 2          \* rows the table may hold
MaxMeetings == 2      \* meetings the provider may hold
MaxParticipants == 3  \* participants the provider may hold
MaxInFlight == 2      \* start requests in flight at once (SpecConc)

\* --------------------------------------------------------------- constants
Null == 0                      \* None / SQL NULL; provider ids start at 1
PENDING == "PENDING"
ACTIVE == "ACTIVE"
DONE == "DONE"
STATUS_CHOICES == {PENDING, ACTIVE, DONE}
NameMaxLength == 128
HTTP_200_OK == 200
HTTP_201_CREATED == 201
HTTP_400_BAD_REQUEST == 400
HTTP_404_NOT_FOUND == 404
HTTP_500_SERVER_ERROR == 500
Region == "ap-south-1"
Preset == "video_shoping"
SupportName == "Customer Support"
SupportCustomId == "customer_support"

VARIABLES
    rows,      \* the live_shopping_livevideorequest table: pk -> row
    nextId,    \* the table's AutoField sequence
    dyte,      \* what the provider holds: meetings and participants
    resp,      \* the response of the last handler that finished
    calls,     \* the provider calls that handler made, in order
    inflight,  \* SpecConc: the bag of start requests in flight
    state,     \* SpecMeeting: the useReducer state of the Meeting component
    setup      \* SpecMeeting: setupDyteMeeting, its position and its locals

vars == <<rows, nextId, dyte, resp, calls, inflight, state, setup>>

\* ------------------------------------------------------- request payloads
\* A JSON object is a function from its keys; a key left out is not in its
\* DOMAIN.  Strings stand for themselves; the validators below classify them.
Shoes == [id |-> "1", title |-> "Shoes", image |-> "http://img/1.png"]
LongName == "<129 characters>"

Payloads ==
    { [user_name |-> "Alice", user_email |-> "alice@x.com", product |-> Shoes],
      [user_name |-> "Alice", user_email |-> "alice@x.com", feedback |-> ""],
      [user_name |-> LongName, user_email |-> "not-an-email", product |-> Shoes],
      [user_name |-> "Alice", user_email |-> "alice@x.com",
       product |-> [id |-> "one", title |-> "Shoes"]],
      [product |-> Shoes] }

CharLen(s) ==
    CASE s = "" -> 0
      [] s = LongName -> 129
      [] s = "Alice" -> 5
      [] s = "Bob" -> 3
      [] OTHER -> 1

IsInteger(s) == s \in {"1", "2"}
IsEmail(s) == s \in {"alice@x.com", "bob@x.com"}
IsURL(s) == s \in {"http://img/1.png", "http://img/2.png"}

\* ----------------------------------------------------------- serializers
ProductErrors(p) ==
    {f \in {"id", "title", "image"} : f \notin DOMAIN p}
    \cup (IF "id" \in DOMAIN p /\ ~IsInteger(p.id) THEN {"id"} ELSE {})
    \cup (IF "title" \in DOMAIN p /\ p.title = "" THEN {"title"} ELSE {})
    \cup (IF "image" \in DOMAIN p /\ ~IsURL(p.image) THEN {"image"} ELSE {})

\* Faulty variant of SerializerErrors: product is taken as any JSON, not validated by
\* the nested ProductSerializer.
SerializerErrorsAnyProduct(data) ==
    {f \in {"user_email", "user_name", "product"} : f \notin DOMAIN data}
    \cup (IF "user_email" \in DOMAIN data /\ ~IsEmail(data.user_email)
          THEN {"user_email"} ELSE {})
    \cup (IF "user_name" \in DOMAIN data
             /\ CharLen(data.user_name) \notin 1..NameMaxLength
          THEN {"user_name"} ELSE {})
    \cup (IF "feedback" \in DOMAIN data /\ data.feedback = ""
          THEN {"feedback"} ELSE {})

\* LiveVideoRequestSerializer(data=data).errors: the fields that fail
SerializerErrors(data) ==
    {f \in {"user_email", "user_name", "product"} : f \notin DOMAIN data}
    \cup (IF "user_email" \in DOMAIN data /\ ~IsEmail(data.user_email)
          THEN {"user_email"} ELSE {})
    \cup (IF "user_name" \in DOMAIN data
             /\ CharLen(data.user_name) \notin 1..NameMaxLength
          THEN {"user_name"} ELSE {})
    \cup (IF "product" \in DOMAIN data /\ ProductErrors(data.product) # {}
          THEN {"product"} ELSE {})
    \cup (IF "feedback" \in DOMAIN data /\ data.feedback = ""
          THEN {"feedback"} ELSE {})

is_valid(data) == SerializerErrors(data) = {}

\* ------------------------------------------------------ the Dyte provider
Call(fn, args, ok, ret) == [fn |-> fn, args |-> args, ok |-> ok, ret |-> ret]

NewMeetingId(d) == Cardinality(d.meetings) + 1
NewParticipantId(d) == Cardinality(d.participants) + 1

\* POST meetings
create_meeting(d, title, region, record) ==
    LET m == [id |-> NewMeetingId(d), title |-> title] IN
    [dyte |-> [d EXCEPT !.meetings = @ \cup {m}], data |-> m]

\* POST meetings/{meeting_id}/participants
\* n: the token is opaque and the provider's choice
add_participant(d, meeting_id, name, preset_name, custom_participant_id, n) ==
    LET pid == NewParticipantId(d)
        p == [id |-> pid, meeting |-> meeting_id, name |-> name,
              preset_name |-> preset_name,
              custom_participant_id |-> custom_participant_id]
        tok == [participant |-> pid, nonce |-> n]
    IN [dyte |-> [d EXCEPT !.participants = @ \cup {p}],
        data |-> [id |-> pid, token |-> tok]]

\* POST meetings/{meeting_id}/participants/{participant_id}/token
refresh_participant_token(d, meeting_id, participant_id, n) ==
    LET tok == [participant |-> participant_id, nonce |-> n] IN
    [dyte |-> d, data |-> [token |-> tok]]

\* ------------------------------------------------------------- the table
\* Faulty variant of NewRow: the two provider ids land in each other's column.
NewRowSwapsIds(id, data, meeting, participant) ==
    [id |-> id,
     user_email |-> data.user_email,
     user_name |-> data.user_name,
     user_dyte_participant_id |-> meeting.id,
     dyte_meeting_id |-> participant.id,
     support_user |-> Null,
     support_user_dyte_participant_id |-> Null,
     status |-> PENDING,
     feedback |-> "",
     product |-> data.product]

\* Faulty variant of NewRow: user_dyte_participant_id is not passed to create().
NewRowNoParticipant(id, data, meeting, participant) ==
    [id |-> id,
     user_email |-> data.user_email,
     user_name |-> data.user_name,
     user_dyte_participant_id |-> Null,
     dyte_meeting_id |-> meeting.id,
     support_user |-> Null,
     support_user_dyte_participant_id |-> Null,
     status |-> PENDING,
     feedback |-> "",
     product |-> data.product]

\* LiveVideoRequest.objects.create(...): the fields create passes, the
\* model's defaults for the others
NewRow(id, data, meeting, participant) ==
    [id |-> id,
     user_email |-> data.user_email,
     user_name |-> data.user_name,
     user_dyte_participant_id |-> participant.id,
     dyte_meeting_id |-> meeting.id,
     support_user |-> Null,
     support_user_dyte_participant_id |-> Null,
     status |-> PENDING,
     feedback |-> "",
     product |-> data.product]

Insert(rs, row) ==
    [i \in DOMAIN rs \cup {row.id} |-> IF i = row.id THEN row ELSE rs[i]]

\* Faulty variant of Save: a conditional update that writes only while the
\* stored row still has no support participant.
SaveIfUnclaimed(rs, live_request) ==
    IF rs[live_request.id].support_user_dyte_participant_id = Null
    THEN Insert(rs, live_request)
    ELSE rs

\* Faulty variant of Save: live_request.delete() in the place of save().
SaveDeletes(rs, live_request) ==
    [i \in DOMAIN rs \ {live_request.id} |-> rs[i]]

\* live_request.save(): every column of the instance is written to its row
Save(rs, live_request) == Insert(rs, live_request)

\* What a handler leaves behind: the table, the provider, its Response (with
\* the request it answers: arg is create's payload, start's and user_token's
\* pk) and the provider calls it made.
Result(rs, d, op, arg, status, data, cs) ==
    [rows |-> rs, dyte |-> d,
     resp |-> [op |-> op, arg |-> arg, status |-> status, data |-> data],
     calls |-> cs]

\* Every request and every response body is a JSON object.
NoArg == [pk |-> Null]
Pk(pk) == [pk |-> pk]
ServerError == [detail |-> "Server Error (500)"]
NotFound == [detail |-> "Not found."]
HTTPError == [error |-> "HTTPError"]

NoResp == [op |-> "none", arg |-> NoArg, status |-> Null, data |-> NoArg]

\* get_object_or_404 raises Http404: nothing after it runs
\* Faulty variant of Http404: the row is looked up with filter().first() and the
\* handler fails on the None it gets.
Http404AsServerError(rs, d, op, pk) ==
    Result(rs, d, op, Pk(pk), HTTP_500_SERVER_ERROR, ServerError, <<>>)

Http404(rs, d, op, pk) ==
    Result(rs, d, op, Pk(pk), HTTP_404_NOT_FOUND, NotFound, <<>>)

\* ---------------------------------------------------------------- create
\* Faulty variant of create: the meeting is deleted at the provider again
\* when add_participant fails.
createRollsBack(rs, id, d, data, ok1, ok2, n) ==
    IF ~is_valid(data)
    THEN Result(rs, d, "create", data, HTTP_400_BAD_REQUEST,
                [errors |-> SerializerErrors(data)], <<>>)
    ELSE
    LET title == data.product.title
        c1args == <<title, Region, FALSE>>
        m == create_meeting(d, title, Region, FALSE)
        c2args == <<m.data.id, data.user_name, Preset, data.user_email>>
        p == add_participant(m.dyte, m.data.id, data.user_name, Preset,
                             data.user_email, n)
        live_request == NewRow(id, data, m.data, p.data)
    IN  IF ~ok1
        THEN Result(rs, d, "create", data, HTTP_500_SERVER_ERROR, ServerError,
                    <<Call("create_meeting", c1args, FALSE, HTTPError)>>)
        ELSE IF ~ok2
        THEN Result(rs, d, "create", data, HTTP_500_SERVER_ERROR, ServerError,
                    <<Call("create_meeting", c1args, TRUE, m.data),
                      Call("add_participant", c2args, FALSE, HTTPError)>>)
        ELSE Result(Insert(rs, live_request), p.dyte, "create", data,
                    HTTP_201_CREATED, live_request,
                    <<Call("create_meeting", c1args, TRUE, m.data),
                      Call("add_participant", c2args, TRUE, p.data)>>)

\* Faulty variant of create: the row is written as soon as the meeting
\* exists, before add_participant has answered.
createPersistsFirst(rs, id, d, data, ok1, ok2, n) ==
    IF ~is_valid(data)
    THEN Result(rs, d, "create", data, HTTP_400_BAD_REQUEST,
                [errors |-> SerializerErrors(data)], <<>>)
    ELSE
    LET title == data.product.title
        c1args == <<title, Region, FALSE>>
        m == create_meeting(d, title, Region, FALSE)
        c2args == <<m.data.id, data.user_name, Preset, data.user_email>>
        p == add_participant(m.dyte, m.data.id, data.user_name, Preset,
                             data.user_email, n)
        live_request == NewRow(id, data, m.data, p.data)
    IN  IF ~ok1
        THEN Result(rs, d, "create", data, HTTP_500_SERVER_ERROR, ServerError,
                    <<Call("create_meeting", c1args, FALSE, HTTPError)>>)
        ELSE IF ~ok2
        THEN Result(Insert(rs, NewRow(id, data, m.data, [id |-> Null])), m.dyte, "create", data, HTTP_500_SERVER_ERROR, ServerError,
                    <<Call("create_meeting", c1args, TRUE, m.data),
                      Call("add_participant", c2args, FALSE, HTTPError)>>)
        ELSE Result(Insert(rs, live_request), p.dyte, "create", data,
                    HTTP_201_CREATED, live_request,
                    <<Call("create_meeting", c1args, TRUE, m.data),
                      Call("add_participant", c2args, TRUE, p.data)>>)

\* ok1, ok2: whether the provider answers 2xx to create_meeting and to
\* add_participant (raise_for_status raises otherwise: the view answers 500)
create(rs, id, d, data, ok1, ok2, n) ==
    IF ~is_valid(data)
    THEN Result(rs, d, "create", data, HTTP_400_BAD_REQUEST,
                [errors |-> SerializerErrors(data)], <<>>)
    ELSE
    LET title == data.product.title
        c1args == <<title, Region, FALSE>>
        m == create_meeting(d, title, Region, FALSE)
        c2args == <<m.data.id, data.user_name, Preset, data.user_email>>
        p == add_participant(m.dyte, m.data.id, data.user_name, Preset,
                             data.user_email, n)
        live_request == NewRow(id, data, m.data, p.data)
    IN  IF ~ok1
        THEN Result(rs, d, "create", data, HTTP_500_SERVER_ERROR, ServerError,
                    <<Call("create_meeting", c1args, FALSE, HTTPError)>>)
        ELSE IF ~ok2
        THEN Result(rs, m.dyte, "create", data, HTTP_500_SERVER_ERROR, ServerError,
                    <<Call("create_meeting", c1args, TRUE, m.data),
                      Call("add_participant", c2args, FALSE, HTTPError)>>)
        ELSE Result(Insert(rs, live_request), p.dyte, "create", data,
                    HTTP_201_CREATED, live_request,
                    <<Call("create_meeting", c1args, TRUE, m.data),
                      Call("add_participant", c2args, TRUE, p.data)>>)

\* ------------------------------------------------------------------ list
\* Faulty variant of filter_status: objects.all(), the filter left out.
filter_none(rs, status) == {rs[i] : i \in DOMAIN rs}

\* LiveVideoRequest.objects.filter(status=status)
filter_status(rs, status) == {rs[i] : i \in {j \in DOMAIN rs : rs[j].status = status}}

\* Faulty variant of list: the rows listed are handed out, marked ACTIVE.
listMarksActive(rs, d) ==
    Result([i \in DOMAIN rs |-> [rs[i] EXCEPT !.status = ACTIVE]], d, "list",
           NoArg, HTTP_200_OK, [results |-> filter_status(rs, PENDING)], <<>>)

list(rs, d) ==
    Result(rs, d, "list", NoArg, HTTP_200_OK,
           [results |-> filter_status(rs, PENDING)], <<>>)

\* ----------------------------------------------------------------- start
\* get_object_or_404(LiveVideoRequest, pk=pk) finds a row
Found(rs, pk) == pk \in DOMAIN rs

\* Faulty variant of HasSupport: the rejoin branch is never taken.
HasSupportNever(live_request) == FALSE

\* if live_request.support_user_dyte_participant_id:
HasSupport(live_request) == live_request.support_user_dyte_participant_id # Null

\* Faulty variant of Joined: the wrong status constant is assigned.
JoinedDone(live_request, participant) ==
    [live_request EXCEPT !.support_user_dyte_participant_id = participant.id,
                         !.status = DONE]

\* Faulty variant of Joined: the assignment of the status is left out.
JoinedKeepsStatus(live_request, participant) ==
    [live_request EXCEPT !.support_user_dyte_participant_id = participant.id]

\* the two assignments before live_request.save()
Joined(live_request, participant) ==
    [live_request EXCEPT !.support_user_dyte_participant_id = participant.id,
                         !.status = ACTIVE]

\* start after its read of the row: the provider call it makes for the
\* instance it holds, the instance it will save (save = TRUE) and its answer
start_call(d, live_request, ok, n) ==
    IF HasSupport(live_request)
    THEN LET args == <<live_request.dyte_meeting_id,
                       live_request.support_user_dyte_participant_id>>
             t == refresh_participant_token(d, args[1], args[2], n)
         IN  IF ok
             THEN [dyte |-> t.dyte, save |-> FALSE, instance |-> live_request,
                   status |-> HTTP_200_OK,
                   data |-> [dyte_auth_token |-> t.data.token],
                   calls |-> <<Call("refresh_participant_token", args, TRUE, t.data)>>]
             ELSE [dyte |-> d, save |-> FALSE, instance |-> live_request,
                   status |-> HTTP_500_SERVER_ERROR, data |-> ServerError,
                   calls |-> <<Call("refresh_participant_token", args, FALSE, HTTPError)>>]
    ELSE LET args == <<live_request.dyte_meeting_id, SupportName, Preset,
                       SupportCustomId>>
             p == add_participant(d, args[1], args[2], args[3], args[4], n)
         IN  IF ok
             THEN [dyte |-> p.dyte, save |-> TRUE,
                   instance |-> Joined(live_request, p.data),
                   status |-> HTTP_201_CREATED,
                   data |-> [dyte_auth_token |-> p.data.token],
                   calls |-> <<Call("add_participant", args, TRUE, p.data)>>]
             ELSE [dyte |-> d, save |-> FALSE, instance |-> live_request,
                   status |-> HTTP_500_SERVER_ERROR, data |-> ServerError,
                   calls |-> <<Call("add_participant", args, FALSE, HTTPError)>>]

\* Faulty variant of start: the first-join Response has no status argument,
\* so it answers with the default 200 like the rejoin branch.
startStatusOmitted(rs, d, pk, ok, n) ==
    IF ~Found(rs, pk)
    THEN Http404(rs, d, "start", pk)
    ELSE LET c == start_call(d, rs[pk], ok, n) IN
         Result(IF c.save THEN Save(rs, c.instance) ELSE rs, c.dyte,
                "start", Pk(pk),
                IF c.status = HTTP_201_CREATED THEN HTTP_200_OK ELSE c.status,
                c.data, c.calls)

\* Faulty variant of start: the row is marked ACTIVE and saved before the
\* provider is asked for the support participant.
startMarksBeforeCall(rs, d, pk, ok, n) ==
    IF ~Found(rs, pk)
    THEN Http404(rs, d, "start", pk)
    ELSE LET c == start_call(d, rs[pk], ok, n) IN
         Result(IF c.save THEN Save(rs, c.instance)
                ELSE IF ~HasSupport(rs[pk])
                THEN Save(rs, [rs[pk] EXCEPT !.status = ACTIVE])
                ELSE rs,
                c.dyte, "start", Pk(pk), c.status, c.data, c.calls)

start(rs, d, pk, ok, n) ==
    IF ~Found(rs, pk)
    THEN Http404(rs, d, "start", pk)
    ELSE LET c == start_call(d, rs[pk], ok, n) IN
         Result(IF c.save THEN Save(rs, c.instance) ELSE rs, c.dyte,
                "start", Pk(pk), c.status, c.data, c.calls)

\* ------------------------------------------------------------ user_token
\* Faulty variant of user_token: the customer's join is recorded on the row.
user_tokenMarksActive(rs, d, pk, ok, n) ==
    IF ~Found(rs, pk)
    THEN Http404(rs, d, "user_token", pk)
    ELSE LET args == <<rs[pk].dyte_meeting_id, rs[pk].user_dyte_participant_id>>
             t == refresh_participant_token(d, args[1], args[2], n)
         IN  Result([rs EXCEPT ![pk].status = ACTIVE], t.dyte, "user_token",
                    Pk(pk), HTTP_200_OK, [dyte_auth_token |-> t.data.token],
                    <<Call("refresh_participant_token", args, TRUE, t.data)>>)

\* Faulty variant of user_token: the token is refreshed for the support
\* participant of the row instead of the customer.
user_tokenForSupport(rs, d, pk, ok, n) ==
    IF ~Found(rs, pk)
    THEN Http404(rs, d, "user_token", pk)
    ELSE LET live_request == rs[pk]
             args == <<live_request.dyte_meeting_id,
                       live_request.support_user_dyte_participant_id>>
             t == refresh_participant_token(d, args[1], args[2], n)
         IN  IF ok
             THEN Result(rs, t.dyte, "user_token", Pk(pk), HTTP_200_OK,
                         [dyte_auth_token |-> t.data.token],
                         <<Call("refresh_participant_token", args, TRUE, t.data)>>)
             ELSE Result(rs, d, "user_token", Pk(pk), HTTP_500_SERVER_ERROR, ServerError,
                         <<Call("refresh_participant_token", args, FALSE, HTTPError)>>)

user_token(rs, d, pk, ok, n) ==
    IF ~Found(rs, pk)
    THEN Http404(rs, d, "user_token", pk)
    ELSE LET live_request == rs[pk]
             args == <<live_request.dyte_meeting_id,
                       live_request.user_dyte_participant_id>>
             t == refresh_participant_token(d, args[1], args[2], n)
         IN  IF ok
             THEN Result(rs, t.dyte, "user_token", Pk(pk), HTTP_200_OK,
                         [dyte_auth_token |-> t.data.token],
                         <<Call("refresh_participant_token", args, TRUE, t.data)>>)
             ELSE Result(rs, d, "user_token", Pk(pk), HTTP_500_SERVER_ERROR, ServerError,
                         <<Call("refresh_participant_token", args, FALSE, HTTPError)>>)

\* ------------------------------------- the Meeting component's state
\* JavaScript's null where a token may stand
NullToken == [participant |-> Null, nonce |-> Null]

\* the actions the component dispatches, and two it does not
ActionTypes == {"set_dyte_auth_token", "set_show_meeting", "set_meeting", "reset"}

\* what a call of the reducer comes to: the state it returns, or the Error
\* it throws (no state is returned then)
Returned(s) == [threw |-> FALSE, state |-> s]
Thrown(s) == [threw |-> TRUE, state |-> s]

\* Faulty variant of reducer: set_show_meeting returns a new object without
\* spreading the old state into it.
reducerWithoutSpread(s, action) ==
    CASE action.type = "set_dyte_auth_token" ->
            Returned([s EXCEPT !.dyte_auth_token = action.dyte_auth_token])
      [] action.type = "set_show_meeting" ->
            Returned([dyte_auth_token |-> NullToken, show_meeting |-> TRUE])
      [] OTHER -> Thrown(s)

reducer(s, action) ==
    CASE action.type = "set_dyte_auth_token" ->
            Returned([s EXCEPT !.dyte_auth_token = action.dyte_auth_token])
      [] action.type = "set_show_meeting" ->
            Returned([s EXCEPT !.show_meeting = TRUE])
      [] OTHER -> Thrown(s)

\* useReducer(reducer, { dyte_auth_token: null, show_meeting: false })
InitialState == [dyte_auth_token |-> NullToken, show_meeting |-> FALSE]

\* dispatch(action): the state after it
dispatch(s, action) == reducer(s, action).state

\* the awaits and dispatches of setupDyteMeeting, in program order
SetupSteps ==
    <<"axios.get", "set_dyte_auth_token", "initMeeting", "joinRoom",
      "set_show_meeting", "done">>

\* before the effect runs / after a rejected await
NotMounted == [pc |-> "not mounted", id |-> Null, auth_token |-> NullToken]
Rejected(s) == [s EXCEPT !.pc = "rejected"]

\* ------------------------------------------------------------ the system
PKs == 1..(MaxRows + 1)
\* A token is opaque: two values tell a token issued again from a new one.
Nonces == {1, 2}

Init ==
    /\ rows = <<>>
    /\ nextId = 1
    /\ dyte = [meetings |-> {}, participants |-> {}]
    /\ resp = NoResp
    /\ calls = <<>>
    /\ inflight = EmptyBag
    /\ state = InitialState
    /\ setup = NotMounted

\* the table and the provider have room for what create may ask of them
HasRoom ==
    /\ Cardinality(DOMAIN rows) < MaxRows
    /\ Cardinality(dyte.meetings) < MaxMeetings
    /\ Cardinality(dyte.participants) < MaxParticipants

Apply(r) ==
    /\ rows' = r.rows
    /\ dyte' = r.dyte
    /\ resp' = r.resp
    /\ calls' = r.calls

\* An outcome the handler never gets to is not chosen twice: a call that is
\* not made has no outcome to choose, a failed call returns no token.
CreateChoice(data, ok1, ok2, n) ==
    /\ ~is_valid(data) => ok1 /\ ok2 /\ n = 1
    /\ ~ok1 => ok2 /\ n = 1
    /\ ~ok2 => n = 1

LookupChoice(pk, ok, n) ==
    /\ ~Found(rows, pk) => ok /\ n = 1
    /\ ~ok => n = 1

Create ==
    /\ \E data \in Payloads, ok1 \in BOOLEAN, ok2 \in BOOLEAN, n \in Nonces :
          LET r == create(rows, nextId, dyte, data, ok1, ok2, n) IN
          /\ CreateChoice(data, ok1, ok2, n)
          /\ is_valid(data) => HasRoom
          /\ Apply(r)
          /\ nextId' = IF r.resp.status = HTTP_201_CREATED
                       THEN nextId + 1 ELSE nextId
    /\ UNCHANGED <<inflight, state, setup>>

List ==
    /\ Apply(list(rows, dyte))
    /\ UNCHANGED <<nextId, inflight, state, setup>>

\* the provider has room for what start may ask of it
StartFits(live_request) ==
    HasSupport(live_request) \/ Cardinality(dyte.participants) < MaxParticipants

Start ==
    /\ \E pk \in PKs, ok \in BOOLEAN, n \in Nonces :
          /\ LookupChoice(pk, ok, n)
          /\ Found(rows, pk) => StartFits(rows[pk])
          /\ Apply(start(rows, dyte, pk, ok, n))
    /\ UNCHANGED <<nextId, inflight, state, setup>>

UserToken ==
    /\ \E pk \in PKs, ok \in BOOLEAN, n \in Nonces :
          /\ LookupChoice(pk, ok, n)
          /\ Apply(user_token(rows, dyte, pk, ok, n))
    /\ UNCHANGED <<nextId, inflight, state, setup>>

Next == Create \/ List \/ Start \/ UserToken

Spec == Init /\ [][Next]_vars

\* ------------------------------------------- start requests in flight
One(r) == SetToBag({r})

\* live_request = get_object_or_404(LiveVideoRequest, pk=pk)
StartRead ==
    /\ BagCardinality(inflight) < MaxInFlight
    /\ \E pk \in PKs :
          IF Found(rows, pk)
          THEN /\ inflight' = inflight (+) One([pc |-> "read",
                                                live_request |-> rows[pk]])
               /\ UNCHANGED <<resp, calls>>
          ELSE /\ resp' = start(rows, dyte, pk, TRUE, 1).resp
               /\ calls' = <<>>
               /\ UNCHANGED inflight
    /\ UNCHANGED <<rows, nextId, dyte, state, setup>>

\* the provider call, for the instance read; the rejoin branch and a failed
\* call answer here
StartProvider ==
    \E r \in BagToSet(inflight), ok \in BOOLEAN, n \in Nonces :
       /\ r.pc = "read"
       /\ ~ok => n = 1
       /\ StartFits(r.live_request)
       /\ LET c == start_call(dyte, r.live_request, ok, n) IN
          /\ dyte' = c.dyte
          /\ IF c.save
             THEN /\ inflight' = (inflight (-) One(r)) (+)
                        One([pc |-> "save", live_request |-> c.instance,
                             answer |-> [status |-> c.status, data |-> c.data,
                                         calls |-> c.calls]])
                  /\ UNCHANGED <<resp, calls>>
             ELSE /\ inflight' = inflight (-) One(r)
                  /\ resp' = [op |-> "start", arg |-> Pk(c.instance.id),
                              status |-> c.status, data |-> c.data]
                  /\ calls' = c.calls
       /\ UNCHANGED <<rows, nextId, state, setup>>

\* live_request.save() and the 201
StartSave ==
    \E r \in BagToSet(inflight) :
       /\ r.pc = "save"
       /\ rows' = Save(rows, r.live_request)
       /\ resp' = [op |-> "start", arg |-> Pk(r.live_request.id),
                   status |-> r.answer.status, data |-> r.answer.data]
       /\ calls' = r.answer.calls
       /\ inflight' = inflight (-) One(r)
       /\ UNCHANGED <<nextId, dyte, state, setup>>

NextConc ==
    \/ Create
    \/ List
    \/ UserToken
    \/ StartRead
    \/ StartProvider
    \/ StartSave

SpecConc == Init /\ [][NextConc]_vars
\* ------------------------------------ setupDyteMeeting, step by step
At(step) == setup.pc = step
Goto(step) == setup' = [setup EXCEPT !.pc = step]

\* useEffect(() => { setupDyteMeeting() }, []) for the route's id
Mount ==
    /\ At("not mounted")
    /\ \E id \in PKs : setup' = [setup EXCEPT !.pc = "axios.get", !.id = id]
    /\ UNCHANGED <<rows, nextId, dyte, resp, calls, inflight, state>>

\* const resp = await axios.get(.../live-requests/${id}/user-token/);
\* const auth_token = resp.data.dyte_auth_token
\* axios rejects on an answer outside 2xx
GetUserToken ==
    /\ At("axios.get")
    /\ \E ok \in BOOLEAN, n \in Nonces :
          LET r == user_token(rows, dyte, setup.id, ok, n) IN
          /\ LookupChoice(setup.id, ok, n)
          /\ Apply(r)
          /\ setup' = IF r.resp.status = HTTP_200_OK
                       THEN [setup EXCEPT !.pc = "set_dyte_auth_token",
                                          !.auth_token = r.resp.data.dyte_auth_token]
                       ELSE Rejected(setup)
    /\ UNCHANGED <<nextId, inflight, state>>

\* dispatch({ type: 'set_dyte_auth_token', dyte_auth_token: auth_token })
DispatchAuthToken ==
    /\ At("set_dyte_auth_token")
    /\ state' = dispatch(state, [type |-> "set_dyte_auth_token",
                                  dyte_auth_token |-> setup.auth_token])
    /\ Goto("initMeeting")
    /\ UNCHANGED <<rows, nextId, dyte, resp, calls, inflight>>

\* await initMeeting({ authToken: auth_token, ... }): the SDK's promise
\* resolves or rejects
InitMeeting ==
    /\ At("initMeeting")
    /\ \E ok \in BOOLEAN :
          setup' = IF ok THEN [setup EXCEPT !.pc = "joinRoom"] ELSE Rejected(setup)
    /\ UNCHANGED <<rows, nextId, dyte, resp, calls, inflight, state>>

\* await meeting?.joinRoom(): skipped when the client captured by the
\* closure is undefined, otherwise the SDK's promise resolves or rejects
JoinRoom ==
    /\ At("joinRoom")
    /\ \E ok \in BOOLEAN :
          setup' = IF ok THEN [setup EXCEPT !.pc = "set_show_meeting"]
                   ELSE Rejected(setup)
    /\ UNCHANGED <<rows, nextId, dyte, resp, calls, inflight, state>>

\* dispatch({ type: 'set_show_meeting' })
DispatchShowMeeting ==
    /\ At("set_show_meeting")
    /\ state' = dispatch(state, [type |-> "set_show_meeting"])
    /\ Goto("done")
    /\ UNCHANGED <<rows, nextId, dyte, resp, calls, inflight>>

\* the component in front of the service: customers create requests, support
\* starts them, and one Meeting component is mounted and sets itself up
NextMeeting ==
    \/ Create
    \/ Start
    \/ Mount
    \/ GetUserToken
    \/ DispatchAuthToken
    \/ InitMeeting
    \/ JoinRoom
    \/ DispatchShowMeeting

SpecMeeting == Init /\ [][NextMeeting]_vars

\* ================================================================ claims
BothCallsSucceeded(cs) ==
    /\ Len(cs) = 2
    /\ cs[1].fn = "create_meeting" /\ cs[1].ok
    /\ cs[2].fn = "add_participant" /\ cs[2].ok

\* the support participants the provider holds for a row's meeting
SupportSeats(d, row) ==
    {p.id : p \in {q \in d.participants :
                      /\ q.meeting = row.dyte_meeting_id
                      /\ q.custom_participant_id = SupportCustomId}}

\* C1: a create whose two provider calls succeed adds exactly one row and
\* changes no other; the new row is PENDING, holds the meeting id that
\* create_meeting returned and the participant id that add_participant
\* returned, and has no support participant.
C1_CreatePersistsPendingRow ==
    [][(resp'.op = "create" /\ BothCallsSucceeded(calls')) =>
         \E id \in DOMAIN rows' \ DOMAIN rows :
            /\ DOMAIN rows' = DOMAIN rows \cup {id}
            /\ \A i \in DOMAIN rows : rows'[i] = rows[i]
            /\ rows'[id].status = PENDING
            /\ rows'[id].dyte_meeting_id = calls'[1].ret.id
            /\ rows'[id].user_dyte_participant_id = calls'[2].ret.id
            /\ rows'[id].support_user_dyte_participant_id = Null]_vars

\* a second row was created, after a meeting was left without a row
C1_Witness ==
    /\ resp.op = "create" /\ resp.status = HTTP_201_CREATED
    /\ BothCallsSucceeded(calls)
    /\ \E i \in DOMAIN rows :
          rows[i].dyte_meeting_id # rows[i].user_dyte_participant_id

\* C2: every row of the table has its meeting id and its customer participant
\* id set, and the provider holds that meeting and that participant of it,
\* whatever provider calls failed on the way.
C2_RowsHaveProviderIds ==
    \A i \in DOMAIN rows :
       /\ rows[i].dyte_meeting_id # Null
       /\ rows[i].user_dyte_participant_id # Null
       /\ \E m \in dyte.meetings : m.id = rows[i].dyte_meeting_id
       /\ \E p \in dyte.participants :
             /\ p.id = rows[i].user_dyte_participant_id
             /\ p.meeting = rows[i].dyte_meeting_id

\* a provider call has just failed while the table holds a row
C2_Witness ==
    /\ resp.status = HTTP_500_SERVER_ERROR
    /\ Len(calls) > 0 /\ ~calls[Len(calls)].ok
    /\ DOMAIN rows # {}

\* C3: in every step every row keeps its status or goes from PENDING to
\* ACTIVE.
C3_StatusOnlyPendingToActive ==
    [][\A i \in DOMAIN rows \cap DOMAIN rows' :
          \/ rows'[i].status = rows[i].status
          \/ rows[i].status = PENDING /\ rows'[i].status = ACTIVE]_vars

\* a row is ACTIVE and a start for it is in flight with a stale PENDING copy
C3_Witness ==
    \E i \in DOMAIN rows :
       /\ rows[i].status = ACTIVE
       /\ \E r \in BagToSet(inflight) :
             r.live_request.id = i /\ r.live_request.status = PENDING

\* C4: a start that answers for a PENDING row made one call, add_participant,
\* stored the id it returned and set the row ACTIVE; a start on a row that an
\* earlier start set ACTIVE makes one call, refresh_participant_token for the
\* very participant that first call added, and leaves table and provider as
\* they were.
C4_StartTwiceReusesSeat ==
    [][(resp'.op = "start" /\ resp'.arg.pk \in DOMAIN rows) =>
         LET pk == resp'.arg.pk IN
         IF rows[pk].status = PENDING
         THEN resp'.status # HTTP_500_SERVER_ERROR =>
                /\ Len(calls') = 1
                /\ calls'[1].fn = "add_participant" /\ calls'[1].ok
                /\ rows'[pk].support_user_dyte_participant_id = calls'[1].ret.id
                /\ rows'[pk].status = ACTIVE
                /\ SupportSeats(dyte', rows[pk]) = {calls'[1].ret.id}
         ELSE /\ Len(calls') = 1
              /\ calls'[1].fn = "refresh_participant_token"
              /\ calls'[1].args = <<rows[pk].dyte_meeting_id,
                                    rows[pk].support_user_dyte_participant_id>>
              /\ SupportSeats(dyte, rows[pk])
                    = {rows[pk].support_user_dyte_participant_id}
              /\ rows' = rows
              /\ dyte' = dyte]_vars

\* the second start has answered with a token for the seat of the first
C4_Witness ==
    /\ resp.op = "start" /\ resp.status = HTTP_200_OK
    /\ rows[resp.arg.pk].status = ACTIVE
    /\ resp.data.dyte_auth_token.participant
          = rows[resp.arg.pk].support_user_dyte_participant_id
\* C5: a row's support participant id changes only in a start that answers
\* 201, and only from null: once set it is neither overwritten nor cleared,
\* so one start alone ever sets it.
C5_SupportSeatSetOnce ==
    [][\A i \in DOMAIN rows \cap DOMAIN rows' :
          LET old == rows[i].support_user_dyte_participant_id
              new == rows'[i].support_user_dyte_participant_id
          IN  /\ old # Null => new = old
              /\ new # old => /\ resp'.op = "start"
                              /\ resp'.arg.pk = i
                              /\ resp'.status = HTTP_201_CREATED]_vars

\* C6: the rows a list returns are exactly the rows of the table whose status
\* is PENDING; none of them is ACTIVE or DONE.
C6_ListPendingExactlyPending ==
    resp.op = "list" =>
       /\ \A i \in DOMAIN rows :
             rows[i] \in resp.data.results <=> rows[i].status = PENDING
       /\ \A r \in resp.data.results :
             /\ r.id \in DOMAIN rows /\ rows[r.id] = r
             /\ r.status \notin {ACTIVE, DONE}

\* a list has answered while one row was PENDING and another was started
C6_Witness ==
    /\ resp.op = "list"
    /\ resp.data.results # {}
    /\ \E i \in DOMAIN rows : rows[i].status = ACTIVE

\* C7: a list changes neither the table nor the provider and makes no
\* provider call.
C7_ListReadOnly ==
    [][resp'.op = "list" =>
         /\ rows' = rows
         /\ nextId' = nextId
         /\ dyte' = dyte
         /\ calls' = <<>>]_vars

\* a list has answered with a PENDING row
C7_Witness ==
    /\ resp.op = "list"
    /\ \E r \in resp.data.results : r.status = PENDING

\* C8: a user_token on an existing row leaves the whole table as it was and
\* answers with a token and nothing else.
C8_UserTokenLeavesRows ==
    [][(resp'.op = "user_token" /\ resp'.arg.pk \in DOMAIN rows) =>
         /\ rows' = rows
         /\ nextId' = nextId
         /\ resp'.status = HTTP_200_OK =>
               DOMAIN resp'.data = {"dyte_auth_token"}]_vars

\* a user_token has answered with a token other than the first one issued
C8_Witness ==
    /\ resp.op = "user_token" /\ resp.status = HTTP_200_OK
    /\ resp.data.dyte_auth_token.nonce # 1
    /\ resp.data.dyte_auth_token.participant
          = rows[resp.arg.pk].user_dyte_participant_id

\* C9: a start or a user_token for a pk the table does not hold answers 404,
\* makes no provider call and leaves table and provider as they were.
C9_UnknownIdNotFound ==
    [][(resp'.op \in {"start", "user_token"} /\ resp'.arg.pk \notin DOMAIN rows) =>
         /\ resp'.status = HTTP_404_NOT_FOUND
         /\ calls' = <<>>
         /\ rows' = rows
         /\ nextId' = nextId
         /\ dyte' = dyte]_vars

\* a start for an unknown pk has answered while the table holds a row
C9_Witness ==
    /\ resp.op = "start"
    /\ resp.arg.pk \notin DOMAIN rows
    /\ DOMAIN rows # {}

\* a payload lacks a required field, or its product blob lacks a field or
\* holds a malformed one
InvalidPayload(data) ==
    \/ \E f \in {"user_name", "user_email", "product"} : f \notin DOMAIN data
    \/ \E f \in {"id", "title", "image"} : f \notin DOMAIN data.product
    \/ ~IsInteger(data.product.id)
    \/ ~IsURL(data.product.image)

\* C10: a create with such a payload answers 400, makes no provider call and
\* adds no row.
C10_InvalidCreateRejected ==
    [][(resp'.op = "create" /\ InvalidPayload(resp'.arg)) =>
         /\ resp'.status = HTTP_400_BAD_REQUEST
         /\ calls' = <<>>
         /\ rows' = rows
         /\ nextId' = nextId
         /\ dyte' = dyte]_vars

\* a create with a malformed product was rejected
C10_Witness ==
    /\ resp.op = "create"
    /\ resp.status = HTTP_400_BAD_REQUEST
    /\ "product" \in DOMAIN resp.arg
    /\ resp.data.errors = {"product"}

\* a start answered with success
StartSucceeded(r) ==
    r.op = "start" /\ r.status \in {HTTP_200_OK, HTTP_201_CREATED}

\* C11: a successful start answers 201 exactly when the row it read had no
\* support participant and its one provider call was add_participant, and 200
\* exactly when the row had one and the call was refresh_participant_token;
\* either way the body carries the token of that call as dyte_auth_token.
C11_StartStatusTellsBranch ==
    [][StartSucceeded(resp') =>
         LET live_request == rows[resp'.arg.pk] IN
            /\ Len(calls') = 1 /\ calls'[1].ok
            /\ (resp'.status = HTTP_201_CREATED) <=>
                  (/\ live_request.support_user_dyte_participant_id = Null
                   /\ calls'[1].fn = "add_participant")
            /\ (resp'.status = HTTP_200_OK) <=>
                  (/\ live_request.support_user_dyte_participant_id # Null
                   /\ calls'[1].fn = "refresh_participant_token")
            /\ DOMAIN resp'.data = {"dyte_auth_token"}
            /\ resp'.data.dyte_auth_token = calls'[1].ret.token]_vars

\* a rejoin answered 200 with a token, on a row that holds a support seat
C11_Witness ==
    /\ resp.op = "start"
    /\ resp.status = HTTP_200_OK
    /\ calls[1].fn = "refresh_participant_token"
    /\ resp.data.dyte_auth_token = calls[1].ret.token
    /\ rows[resp.arg.pk].status = ACTIVE

\* C12: under concurrent starts the save of a first-join start is
\* unconditional: whenever a start has answered 201, the row holds the
\* participant id that this start's add_participant returned (the last writer
\* wins), whatever support participants the provider already holds for the
\* meeting; every support id stored in a row is one the provider issued for
\* that row's meeting.
C12_LastWriterWins ==
    /\ (resp.op = "start" /\ resp.status = HTTP_201_CREATED) =>
          /\ calls[1].fn = "add_participant"
          /\ rows[resp.arg.pk].support_user_dyte_participant_id = calls[1].ret.id
          /\ calls[1].ret.id \in SupportSeats(dyte, rows[resp.arg.pk])
    /\ \A i \in DOMAIN rows :
          rows[i].support_user_dyte_participant_id # Null =>
             rows[i].support_user_dyte_participant_id \in SupportSeats(dyte, rows[i])

\* two starts both took the first-join branch on one row: the provider holds
\* two support participants for its meeting, both starts are over, the last
\* one answered 201 and the row holds the id of that last writer
C12_Witness ==
    /\ inflight = EmptyBag
    /\ resp.op = "start" /\ resp.status = HTTP_201_CREATED
    /\ Cardinality(SupportSeats(dyte, rows[resp.arg.pk])) = 2
    /\ rows[resp.arg.pk].support_user_dyte_participant_id = calls[1].ret.id
    /\ \E s \in SupportSeats(dyte, rows[resp.arg.pk]) : s # calls[1].ret.id

\* create's create_meeting succeeded and its add_participant failed
CreateFailedAfterMeeting(r, cs) ==
    /\ r.op = "create"
    /\ Len(cs) = 2
    /\ cs[1].fn = "create_meeting" /\ cs[1].ok
    /\ cs[2].fn = "add_participant" /\ ~cs[2].ok

\* the meetings of the provider that no row refers to
OrphanMeetings(rs, d) ==
    {m.id : m \in d.meetings} \ {rs[i].dyte_meeting_id : i \in DOMAIN rs}

\* C13: when create_meeting succeeds and the add_participant that follows
\* fails, create fails (500), the table is left as it was and no participant
\* is added, yet the meeting just created stays at the provider, referred to
\* by no row; no step ever removes a meeting from the provider or makes a
\* row refer to a meeting left behind.
C13_FailedCreateLeavesOrphanMeeting ==
    [][/\ dyte.meetings \subseteq dyte'.meetings
       /\ OrphanMeetings(rows, dyte) \subseteq OrphanMeetings(rows', dyte')
       /\ CreateFailedAfterMeeting(resp', calls') =>
            /\ resp'.status = HTTP_500_SERVER_ERROR
            /\ rows' = rows
            /\ dyte'.participants = dyte.participants
            /\ calls'[1].ret.id \notin {m.id : m \in dyte.meetings}
            /\ calls'[1].ret.id \in OrphanMeetings(rows', dyte')
            /\ OrphanMeetings(rows', dyte') =
                  OrphanMeetings(rows, dyte) \cup {calls'[1].ret.id}]_vars

\* a create has just failed at add_participant and left its meeting behind
C13_Witness ==
    /\ CreateFailedAfterMeeting(resp, calls)
    /\ resp.status = HTTP_500_SERVER_ERROR
    /\ calls[1].ret.id \in OrphanMeetings(rows, dyte)
    /\ rows # <<>>

\* the columns of a row: none of them holds a join token
RowFields ==
    {"id", "user_email", "user_name", "user_dyte_participant_id",
     "dyte_meeting_id", "support_user", "support_user_dyte_participant_id",
     "status", "feedback", "product"}

\* C14: every user_token on an existing row makes exactly one provider call,
\* refresh_participant_token for the row's dyte_meeting_id and its
\* user_dyte_participant_id; when the call succeeds the answer is 200 with the
\* token of that very call, otherwise 500; the table is unchanged and no
\* column of the row holds a token.
C14_UserTokenRefreshesEachTime ==
    [][(resp'.op = "user_token" /\ Found(rows, resp'.arg.pk)) =>
         LET live_request == rows[resp'.arg.pk] IN
            /\ Len(calls') = 1
            /\ calls'[1].fn = "refresh_participant_token"
            /\ calls'[1].args = <<live_request.dyte_meeting_id,
                                  live_request.user_dyte_participant_id>>
            /\ calls'[1].ok =>
                  /\ resp'.status = HTTP_200_OK
                  /\ resp'.data = [dyte_auth_token |-> calls'[1].ret.token]
                  /\ calls'[1].ret.token.participant =
                        live_request.user_dyte_participant_id
            /\ ~calls'[1].ok => resp'.status = HTTP_500_SERVER_ERROR
            /\ rows' = rows
            /\ DOMAIN rows'[resp'.arg.pk] = RowFields]_vars

\* a user_token answered with the second token the provider can issue for
\* the customer of a row that support has joined
C14_Witness ==
    /\ resp.op = "user_token"
    /\ resp.status = HTTP_200_OK
    /\ calls[1].fn = "refresh_participant_token"
    /\ resp.data.dyte_auth_token.participant =
          rows[resp.arg.pk].user_dyte_participant_id
    /\ resp.data.dyte_auth_token.nonce = 2
    /\ rows[resp.arg.pk].status = ACTIVE

\* C15: within one create the provider is called only for a valid payload,
\* create_meeting first and add_participant second, the latter only after
\* create_meeting has succeeded and for the meeting id it returned; the table
\* changes only when both calls have succeeded; the record answered with 201
\* is the stored row, whose fields do not include the token that
\* add_participant returned.
C15_CreateStepOrder ==
    [][resp'.op = "create" =>
         /\ Len(calls') <= 2
         /\ calls' # <<>> =>
               /\ ~InvalidPayload(resp'.arg)
               /\ calls'[1].fn = "create_meeting"
         /\ \A k \in DOMAIN calls' :
               calls'[k].fn = "add_participant" =>
                  /\ k = 2
                  /\ calls'[1].ok
                  /\ calls'[k].args[1] = calls'[1].ret.id
         /\ Len(calls') = 2 => calls'[2].fn = "add_participant"
         /\ rows' # rows => BothCallsSucceeded(calls')
         /\ resp'.status = HTTP_201_CREATED =>
               /\ BothCallsSucceeded(calls')
               /\ resp'.data = rows'[resp'.data.id]
               /\ DOMAIN resp'.data = RowFields
               /\ "token" \in DOMAIN calls'[2].ret]_vars

\* a create answered 201 for the second meeting of the provider, joined by
\* its third participant
C15_Witness ==
    /\ resp.op = "create"
    /\ resp.status = HTTP_201_CREATED
    /\ BothCallsSucceeded(calls)
    /\ calls[1].ret.id = 2
    /\ calls[2].args[1] = 2
    /\ calls[2].ret.id = 3

\* C16: no step removes a row: the set of row ids of the table never loses
\* an element, and it gains one only in a create that answers 201, the id
\* gained being the id of the record answered.
C16_RowsOnlyGrow ==
    [][/\ DOMAIN rows \subseteq DOMAIN rows'
       /\ DOMAIN rows' # DOMAIN rows =>
             /\ resp'.op = "create"
             /\ resp'.status = HTTP_201_CREATED
             /\ DOMAIN rows' = DOMAIN rows \cup {resp'.data.id}]_vars

\* the table holds two rows after a start has been answered for one of them
\* and a customer has fetched a token
C16_Witness ==
    /\ Cardinality(DOMAIN rows) = 2
    /\ \E i \in DOMAIN rows : rows[i].status = ACTIVE
    /\ resp.op = "user_token"
    /\ resp.status = HTTP_200_OK

\* the add_participant of a first-join start failed
FirstJoinFailed(r, cs) ==
    /\ r.op = "start"
    /\ Len(cs) = 1
    /\ cs[1].fn = "add_participant" /\ ~cs[1].ok

\* C17: when the add_participant of a first-join start fails, start fails
\* (500) and leaves the table and the provider as they were: the row is still
\* PENDING with no support participant, so that a start on the row as it is
\* after the failure calls add_participant again.
C17_FailedFirstJoinLeavesRow ==
    [][FirstJoinFailed(resp', calls') =>
         LET pk == resp'.arg.pk IN
            /\ resp'.status = HTTP_500_SERVER_ERROR
            /\ rows' = rows
            /\ dyte' = dyte
            /\ rows'[pk].status = PENDING
            /\ rows'[pk].support_user_dyte_participant_id = Null
            /\ start_call(dyte', rows'[pk], TRUE, 1).calls[1].fn = "add_participant"
            /\ start_call(dyte', rows'[pk], TRUE, 1).status = HTTP_201_CREATED]_vars

\* a first-join start has just failed at the provider on the second row
C17_Witness ==
    /\ FirstJoinFailed(resp, calls)
    /\ resp.status = HTTP_500_SERVER_ERROR
    /\ resp.arg.pk = 2
    /\ rows[2].status = PENDING
    /\ SupportSeats(dyte, rows[2]) = {}

\* C18: in every state every row is ACTIVE exactly when it has a support
\* participant id and PENDING exactly when it has none; no row is DONE.
C18_StatusMatchesSupportSeat ==
    \A i \in DOMAIN rows :
       /\ (rows[i].status = ACTIVE) <=>
             (rows[i].support_user_dyte_participant_id # Null)
       /\ (rows[i].status = PENDING) <=>
             (rows[i].support_user_dyte_participant_id = Null)
       /\ rows[i].status # DONE
       /\ rows[i].status \in STATUS_CHOICES

\* an ACTIVE row with its support participant next to a PENDING row, while a
\* start is in flight
C18_Witness ==
    /\ \E i \in DOMAIN rows :
          /\ rows[i].status = ACTIVE
          /\ rows[i].support_user_dyte_participant_id \in SupportSeats(dyte, rows[i])
    /\ \E i \in DOMAIN rows :
          /\ rows[i].status = PENDING
          /\ rows[i].support_user_dyte_participant_id = Null
    /\ inflight # EmptyBag

\* setupDyteMeeting moves from one step to the next in program order, or
\* stops at an await that rejects
InSetupOrder(from, to) ==
    \/ from = "not mounted" /\ to = SetupSteps[1]
    \/ \E k \in 1..(Len(SetupSteps) - 1) :
          from = SetupSteps[k] /\ to = SetupSteps[k + 1]
    \/ from \in {"axios.get", "initMeeting", "joinRoom"} /\ to = "rejected"

\* C19: the Meeting component goes through fetch user token, dispatch
\* set_dyte_auth_token, initMeeting, joinRoom, dispatch set_show_meeting in
\* this order; its reducer state changes only in the two dispatches; the
\* token dispatched is the one the service answered with; show_meeting is
\* true only with a non-null dyte_auth_token; on every state reached,
\* set_show_meeting keeps dyte_auth_token, set_dyte_auth_token keeps
\* show_meeting, and an action of another type throws and returns no state.
C19_MeetingSetupOrder ==
    [][/\ setup'.pc # setup.pc => InSetupOrder(setup.pc, setup'.pc)
       /\ state' # state =>
             /\ setup.pc \in {"set_dyte_auth_token", "set_show_meeting"}
             /\ setup'.pc # setup.pc
       /\ (At("axios.get") /\ setup'.pc = "set_dyte_auth_token") =>
             /\ resp'.op = "user_token" /\ resp'.status = HTTP_200_OK
             /\ setup'.auth_token = calls'[1].ret.token
             /\ setup'.auth_token # NullToken
       /\ (At("set_dyte_auth_token") /\ setup'.pc # setup.pc) =>
             /\ state'.dyte_auth_token = setup.auth_token
             /\ state'.show_meeting = state.show_meeting
       /\ (At("set_show_meeting") /\ setup'.pc # setup.pc) =>
             /\ state'.show_meeting
             /\ state'.dyte_auth_token = state.dyte_auth_token
       /\ state'.show_meeting => state'.dyte_auth_token # NullToken
       /\ state'.show_meeting => setup'.pc = "done"
       /\ \A t \in ActionTypes :
             LET r == reducer(state', [type |-> t,
                                       dyte_auth_token |-> setup'.auth_token])
             IN  /\ t = "set_show_meeting" =>
                       /\ ~r.threw
                       /\ r.state.dyte_auth_token = state'.dyte_auth_token
                 /\ t = "set_dyte_auth_token" =>
                       /\ ~r.threw
                       /\ r.state.show_meeting = state'.show_meeting
                 /\ t \notin {"set_show_meeting", "set_dyte_auth_token"} =>
                       /\ r.threw
                       /\ r.state = state']_vars

\* the setup has run to its end for a request that support has joined:
\* show_meeting is true and the state holds the token fetched
C19_Witness ==
    /\ setup.pc = "done"
    /\ state.show_meeting
    /\ state.dyte_auth_token = setup.auth_token
    /\ state.dyte_auth_token.participant = rows[setup.id].user_dyte_participant_id
    /\ rows[setup.id].status = ACTIVE
====
